---------------------------- MODULE Spec2Model ----------------------------
(***************************************************************************)
(* Model of the router package of ritego/build-a-router-with-go:           *)
(*   router/index.go   isValidMethod, tokenize, New, the error values      *)
(*   router/router.go  Router.Handle, HandleFunc, ServeHTTP, match         *)
(*   router/route.go   Route                                               *)
(*   main.go           setupRouter                                         *)
(*                                                                         *)
(* A Go string is modelled as the sequence of its characters, each a       *)
(* one-character TLA+ string, so that Split, TrimPrefix, TrimSuffix,       *)
(* EqualFold and url.Parse are computed character by character.            *)
(*                                                                         *)
(* Spec, SpecMatch, SpecMain and SpecHost make the calls one at a time;    *)
(* SpecConc runs Handle, HandleFunc and ServeHTTP step by step on          *)
(* goroutines, with Router.mu and the unsynchronized read of match.        *)
(***************************************************************************)
EXTENDS Naturals, Sequences, FiniteSets, TLC

VARIABLES
    routes,   \* Router.routes: the slice of Route values, in append order
    last,     \* the last call made on the router: its arguments and outcome
    urlHost,  \* Request.URL.Host of the last request
    mu,       \* Router.mu: Free, or the goroutine that holds it
    reg,      \* the goroutines that register: where each is in Handle
    srv       \* the goroutines of the server: where each is in ServeHTTP

\* what the calls made one at a time leave alone
conc == <<mu, reg, srv>>

vars == <<routes, last, urlHost, mu, reg, srv>>

-----------------------------------------------------------------------------
(* Bounds of the model *)

\* longest route slice explored by Spec
MaxRoutes == 2

\* longest route slice explored by SpecMatch
MaxMatchRoutes == 3

\* longest route slice explored by SpecHost
MaxHostRoutes == 2

\* number of routes each registering goroutine of SpecConc appends
MaxAppends == 1

\* number of pieces concatenated into a request path by SpecMain
MaxReqParts == 3

-----------------------------------------------------------------------------
(* Go strings as character sequences *)

LowerLetters == <<"a","b","c","d","e","f","g","h","i","j","k","l","m",
                  "n","o","p","q","r","s","t","u","v","w","x","y","z">>

UpperLetters == <<"A","B","C","D","E","F","G","H","I","J","K","L","M",
                  "N","O","P","Q","R","S","T","U","V","W","X","Y","Z">>

\* unicode.ToUpper restricted to ASCII, as a table from lower to upper case
UpperOf ==
    [c \in {LowerLetters[i] : i \in 1..Len(LowerLetters)} |->
        UpperLetters[CHOOSE i \in 1..Len(LowerLetters) : LowerLetters[i] = c]]

ToUpperChar(c) == IF c \in DOMAIN UpperOf THEN UpperOf[c] ELSE c

\* strings.EqualFold on ASCII strings
EqualFold(s, t) ==
    /\ Len(s) = Len(t)
    /\ \A i \in 1..Len(s) : ToUpperChar(s[i]) = ToUpperChar(t[i])

\* strings.Index(s, c) for a one-character c, 1-based; 0 when absent
RECURSIVE indexFrom(_, _, _)
indexFrom(s, c, i) ==
    IF i > Len(s) THEN 0 ELSE IF s[i] = c THEN i ELSE indexFrom(s, c, i + 1)

IndexOf(s, c) == indexFrom(s, c, 1)

\* strings.HasPrefix / strings.HasSuffix
HasPrefix(s, p) == Len(s) >= Len(p) /\ SubSeq(s, 1, Len(p)) = p

HasSuffix(s, p) == Len(s) >= Len(p) /\ SubSeq(s, Len(s) - Len(p) + 1, Len(s)) = p

\* strings.TrimPrefix / strings.TrimSuffix: at most one occurrence is removed
TrimPrefix(s, p) == IF HasPrefix(s, p) THEN SubSeq(s, Len(p) + 1, Len(s)) ELSE s

TrimSuffix(s, p) == IF HasSuffix(s, p) THEN SubSeq(s, 1, Len(s) - Len(p)) ELSE s

\* strings.Split(s, c) for a one-character c: n separators give n+1 parts
RECURSIVE Split(_, _)
Split(s, c) ==
    LET i == IndexOf(s, c)
    IN  IF i = 0 THEN <<s>>
        ELSE <<SubSeq(s, 1, i - 1)>> \o Split(SubSeq(s, i + 1, Len(s)), c)

\* the part of s before the first c (all of s when c is absent): strings.Cut
Before(s, c) ==
    LET i == IndexOf(s, c) IN IF i = 0 THEN s ELSE SubSeq(s, 1, i - 1)

\* s from its first c on, c included (empty when c is absent)
From(s, c) ==
    LET i == IndexOf(s, c) IN IF i = 0 THEN <<>> ELSE SubSeq(s, i, Len(s))

-----------------------------------------------------------------------------
(* router/index.go *)

\* the values a call can panic with; NoPanic when it returns normally
NoPanic == "none"

ErrMethodNotAllowed == "ErrMethodNotAllowed"

ErrBadPath == "ErrBadPath"

ErrNilHandler == "ErrNilHandler"

\* the *url.Error that url.Parse returns
UrlParseError == "url.Error"

\* the plain string HandleFunc panics with
NilHandlerString == "router: nill handler provided"

\* the method list of isValidMethod, in its order
AllowedMethods ==
    << <<"G","E","T">>, <<"P","O","S","T">>, <<"P","U","T">>,
       <<"D","E","L","E","T","E">>, <<"H","E","A","D">>,
       <<"O","P","T","I","O","N","S">> >>

isValidMethod(method) ==
    \E i \in 1..Len(AllowedMethods) : EqualFold(AllowedMethods[i], method)

\* bytes below ' ' and DEL: stringContainsCTLByte of net/url
ControlChars == {"\t", "\n", "\r"}

(***************************************************************************)
(* url.Parse on the strings tokenize hands it: no ':' (Split removed it),  *)
(* and characters from letters, digits, '-', '.', '/', '?', '#' and the    *)
(* control characters.  The fragment is cut at the first '#', a control    *)
(* character in what is left is an error, the query is cut at the first    *)
(* '?', and a rest that starts with "//" but not with "///" gives the      *)
(* authority up to the next '/' as Host and what follows as Path.          *)
(***************************************************************************)
urlParse(raw) ==
    LET u    == Before(raw, "#")
        rest == Before(u, "?")
        auth == HasPrefix(rest, <<"/","/">>) /\ ~HasPrefix(rest, <<"/","/","/">>)
        tail == SubSeq(rest, 3, Len(rest))
    IN  IF \E i \in 1..Len(u) : u[i] \in ControlChars
        THEN [err |-> UrlParseError, Host |-> <<>>, Path |-> <<>>]
        ELSE IF auth
        THEN [err |-> NoPanic, Host |-> Before(tail, "/"), Path |-> From(tail, "/")]
        ELSE [err |-> NoPanic, Host |-> <<>>, Path |-> rest]

\* tokenize with the part count tested as "fewer than two": a mutant
tokenizeAtLeastTwo(path) ==
    LET paths      == Split(path, ":")
        pathMethod == paths[1]
        trimmed    == TrimSuffix(TrimPrefix(paths[2], <<"/">>), <<"/">>)
        pathUrl    == IF trimmed = <<>> THEN <<"/">> ELSE trimmed
        u          == urlParse(pathUrl)
        failed(e)  == [panic |-> e, method |-> <<>>, host |-> <<>>, path |-> <<>>]
    IN  IF Len(paths) < 2 THEN failed(ErrBadPath)
        ELSE IF ~isValidMethod(pathMethod) THEN failed(ErrMethodNotAllowed)
        ELSE IF u.err # NoPanic THEN failed(u.err)
        ELSE [panic |-> NoPanic, method |-> pathMethod, host |-> u.Host, path |-> u.Path]

\* tokenize without the TrimPrefix: a mutant
tokenizeNoTrimPrefix(path) ==
    LET paths      == Split(path, ":")
        pathMethod == paths[1]
        trimmed    == TrimSuffix(paths[2], <<"/">>)
        pathUrl    == IF trimmed = <<>> THEN <<"/">> ELSE trimmed
        u          == urlParse(pathUrl)
        failed(e)  == [panic |-> e, method |-> <<>>, host |-> <<>>, path |-> <<>>]
    IN  IF Len(paths) # 2 THEN failed(ErrBadPath)
        ELSE IF ~isValidMethod(pathMethod) THEN failed(ErrMethodNotAllowed)
        ELSE IF u.err # NoPanic THEN failed(u.err)
        ELSE [panic |-> NoPanic, method |-> pathMethod, host |-> u.Host, path |-> u.Path]

\* tokenize without the TrimSuffix: a mutant
tokenizeNoTrimSuffix(path) ==
    LET paths      == Split(path, ":")
        pathMethod == paths[1]
        trimmed    == TrimPrefix(paths[2], <<"/">>)
        pathUrl    == IF trimmed = <<>> THEN <<"/">> ELSE trimmed
        u          == urlParse(pathUrl)
        failed(e)  == [panic |-> e, method |-> <<>>, host |-> <<>>, path |-> <<>>]
    IN  IF Len(paths) # 2 THEN failed(ErrBadPath)
        ELSE IF ~isValidMethod(pathMethod) THEN failed(ErrMethodNotAllowed)
        ELSE IF u.err # NoPanic THEN failed(u.err)
        ELSE [panic |-> NoPanic, method |-> pathMethod, host |-> u.Host, path |-> u.Path]

\* tokenize: the panic it raises, or the (method, host, path) it returns
tokenize(path) ==
    LET paths      == Split(path, ":")
        pathMethod == paths[1]
        trimmed    == TrimSuffix(TrimPrefix(paths[2], <<"/">>), <<"/">>)
        pathUrl    == IF trimmed = <<>> THEN <<"/">> ELSE trimmed
        u          == urlParse(pathUrl)
        failed(e)  == [panic |-> e, method |-> <<>>, host |-> <<>>, path |-> <<>>]
    IN  IF Len(paths) # 2 THEN failed(ErrBadPath)
        ELSE IF ~isValidMethod(pathMethod) THEN failed(ErrMethodNotAllowed)
        ELSE IF u.err # NoPanic THEN failed(u.err)
        ELSE [panic |-> NoPanic, method |-> pathMethod, host |-> u.Host, path |-> u.Path]

-----------------------------------------------------------------------------
(* router/route.go, router/router.go *)

\* the nil http.Handler and the nil handler function
Nil == "nil"

\* http.NotFoundHandler()
NotFoundHandler == "NotFound"

Route(method, host, path, handler) ==
    [method |-> method, host |-> host, path |-> path, handler |-> handler]

\* the record kept of a call: what was called with what, and how it ended
Call(op, method, path, handler, panic, served) ==
    [op |-> op, method |-> method, path |-> path, handler |-> handler,
     panic |-> panic, served |-> served]

\* Handle that skips a triple already registered: a mutant
handleNoDuplicates(rs, path, handler) ==
    LET t == tokenize(path)
    IN  IF handler = Nil THEN [routes |-> rs, panic |-> ErrNilHandler]
        ELSE IF t.panic # NoPanic THEN [routes |-> rs, panic |-> t.panic]
        ELSE IF \E i \in 1..Len(rs) :
                    /\ rs[i].method = t.method
                    /\ rs[i].host = t.host
                    /\ rs[i].path = t.path
        THEN [routes |-> rs, panic |-> NoPanic]
        ELSE [routes |-> Append(rs, Route(t.method, t.host, t.path, handler)),
              panic |-> NoPanic]

\* Handle that appends the route before tokenize has accepted the path: a mutant
handleAppendFirst(rs, path, handler) ==
    LET t == tokenize(path)
    IN  IF handler = Nil THEN [routes |-> rs, panic |-> ErrNilHandler]
        ELSE IF t.panic # NoPanic
        THEN [routes |-> Append(rs, Route(<<>>, <<>>, <<>>, handler)), panic |-> t.panic]
        ELSE [routes |-> Append(rs, Route(t.method, t.host, t.path, handler)),
              panic |-> NoPanic]

\* Handle that goes on to append when url.Parse has failed: a mutant
handleIgnoreParseError(rs, path, handler) ==
    LET t == tokenize(path)
    IN  IF handler = Nil THEN [routes |-> rs, panic |-> ErrNilHandler]
        ELSE IF t.panic = UrlParseError
        THEN [routes |-> Append(rs, Route(t.method, t.host, t.path, handler)),
              panic |-> t.panic]
        ELSE IF t.panic # NoPanic THEN [routes |-> rs, panic |-> t.panic]
        ELSE [routes |-> Append(rs, Route(t.method, t.host, t.path, handler)),
              panic |-> NoPanic]

\* what Router.Handle(path, handler) does to a route slice rs: the slice it
\* leaves and the panic it raises.  The mutex is taken first and released by
\* the deferred Unlock on every way out.
handle(rs, path, handler) ==
    LET t == tokenize(path)
    IN  IF handler = Nil THEN [routes |-> rs, panic |-> ErrNilHandler]
        ELSE IF t.panic # NoPanic THEN [routes |-> rs, panic |-> t.panic]
        ELSE [routes |-> Append(rs, Route(t.method, t.host, t.path, handler)),
              panic |-> NoPanic]

\* what Router.HandleFunc(path, handler) does to rs: its own nil check, then
\* Handle with http.HandlerFunc(handler)
handleFunc(rs, path, handler) ==
    IF handler = Nil THEN [routes |-> rs, panic |-> NilHandlerString]
    ELSE handle(rs, path, handler)

\* a call of Router.Handle
Handle(path, handler) ==
    LET r == handle(routes, path, handler)
    IN  /\ routes' = r.routes
        /\ last' = Call("Handle", <<>>, path, handler, r.panic, Nil)

\* a call of Router.HandleFunc
HandleFunc(path, handler) ==
    LET r == handleFunc(routes, path, handler)
    IN  /\ routes' = r.routes
        /\ last' = Call("HandleFunc", <<>>, path, handler, r.panic, Nil)

\* the loop of match without its break, the last equal route winning: a mutant
RECURSIVE scanNoBreak(_, _, _, _, _)
scanNoBreak(rs, i, method, host, path) ==
    IF i > Len(rs) THEN Nil
    ELSE LET later == scanNoBreak(rs, i + 1, method, host, path)
         IN  IF later # Nil THEN later
             ELSE IF rs[i].method = method /\ rs[i].host = host /\ rs[i].path = path
             THEN rs[i].handler
             ELSE Nil

\* the loop of match comparing host and path only: a mutant
RECURSIVE scanAnyMethod(_, _, _, _, _)
scanAnyMethod(rs, i, method, host, path) ==
    IF i > Len(rs) THEN Nil
    ELSE IF rs[i].host = host /\ rs[i].path = path
    THEN rs[i].handler
    ELSE scanAnyMethod(rs, i + 1, method, host, path)

\* the loop of match comparing method and host only: a mutant
RECURSIVE scanAnyPath(_, _, _, _, _)
scanAnyPath(rs, i, method, host, path) ==
    IF i > Len(rs) THEN Nil
    ELSE IF rs[i].method = method /\ rs[i].host = host
    THEN rs[i].handler
    ELSE scanAnyPath(rs, i + 1, method, host, path)

\* the loop of match: the handler of the first route from index i on that
\* equals the triple, Nil when the loop runs off the end.  The fmt.Println of
\* each route visited writes to standard output only and is left out.
RECURSIVE scan(_, _, _, _, _)
scan(rs, i, method, host, path) ==
    IF i > Len(rs) THEN Nil
    ELSE IF rs[i].method = method /\ rs[i].host = host /\ rs[i].path = path
    THEN rs[i].handler
    ELSE scan(rs, i + 1, method, host, path)

\* Router.match(rr): the panic of tokenize, or the handler it returns
match(rs, reqMethod, reqPath) ==
    LET t       == tokenize(reqMethod \o <<":">> \o reqPath)
        handler == scan(rs, 1, t.method, t.host, t.path)
    IN  IF t.panic # NoPanic THEN [panic |-> t.panic, handler |-> Nil]
        ELSE IF handler = Nil THEN [panic |-> NoPanic, handler |-> NotFoundHandler]
        ELSE [panic |-> NoPanic, handler |-> handler]

\* a call of Router.ServeHTTP(rw, rr): match, then the handler found is invoked
ServeHTTP(reqMethod, reqPath) ==
    LET m == match(routes, reqMethod, reqPath)
    IN  /\ routes' = routes
        /\ last' = Call("ServeHTTP", reqMethod, reqPath, Nil, m.panic, m.handler)

\* the zero value of sync.Mutex: unlocked
Free == "free"

\* two goroutines that register and one goroutine of the server
Registrars == {"r1", "r2"}

Servers == {"s1"}

\* a registering goroutine outside Handle and HandleFunc: the panic its last
\* call ended with, and the number of its calls that returned
IdleRegistrar(panic, ok) ==
    [pc |-> "idle", path |-> <<>>, handler |-> Nil,
     tok |-> [panic |-> NoPanic, method |-> <<>>, host |-> <<>>, path |-> <<>>],
     base |-> <<>>, panic |-> panic, ok |-> ok]

\* what match returns: the panic of tokenize, or the handler; here neither
NoMatch == [panic |-> NoPanic, handler |-> Nil]

\* a server goroutine outside ServeHTTP: its last request, the handlers that
\* request invoked, and the panic it ended with
IdleServer(method, path, invoked, panic, before, after) ==
    [pc |-> "idle", method |-> method, path |-> path, found |-> Nil,
     invoked |-> invoked, panic |-> panic, before |-> before, after |-> after]

\* router.New(): an empty Router, its mutex unlocked, no call made on it yet
Init ==
    /\ routes = <<>>
    /\ last = Call("New", <<>>, <<>>, Nil, NoPanic, Nil)
    /\ urlHost = <<>>
    /\ mu = Free
    /\ reg = [r \in Registrars |-> IdleRegistrar(NoPanic, 0)]
    /\ srv = [s \in Servers |-> IdleServer(<<>>, <<>>, <<>>, NoPanic, NoMatch, NoMatch)]

-----------------------------------------------------------------------------
(* Spec: registrations of well-formed and malformed path-specs, with and   *)
(* without a handler, and requests, in any order                           *)

\* a non-nil handler
HandlerA == "A"

\* method tokens: allowed, allowed in lower case, not allowed
GET == <<"G","E","T">>

POST == <<"P","O","S","T">>

LowerGet == <<"g","e","t">>

PATCH == <<"P","A","T","C","H">>

\* URL parts of a path-spec: the root, a segment with and without its
\* slashes, doubled slashes at either end, a query mark, a control character
UrlSpecs ==
    { <<>>, <<"/">>, <<"/","x">>, <<"x">>, <<"/","x","/">>, <<"/","/","x">>,
      <<"/","x","/","/">>, <<"/","/","/","/">>, <<"/","?">>, <<"/","\t">> }

\* path-specs with one ':', with none, and with two
OneColon ==
    { GET \o <<":">> \o u : u \in UrlSpecs }
        \cup { LowerGet \o <<":">> \o u : u \in {<<"/">>, <<"/","x">>} }
        \cup { PATCH \o <<":","/","x">>, <<":","/","x">> }

ZeroColon == { <<"/","x">>, GET, <<>> }

TwoColon == { GET \o <<":","/","x",":","y">>, PATCH \o <<":","/","x",":","y">> }

PathSpecs == OneColon \cup ZeroColon \cup TwoColon

\* registrations: every path-spec with a handler, two of them without one
Registrations ==
    (PathSpecs \X {HandlerA})
        \cup ({GET \o <<":","/","x">>, PATCH \o <<":","/","x">>} \X {Nil})

\* requests: Request.Method and Request.URL.Path
RequestMethods == {GET, LowerGet, PATCH}

RequestPaths ==
    { <<"/">>, <<"/","x">>, <<"/","x","/">>, <<"/","y">>, <<"/","x",":","y">>, <<>> }

Next ==
    \/ \E r \in Registrations :
           /\ Handle(r[1], r[2])
           /\ Len(routes') <= MaxRoutes
           /\ UNCHANGED <<urlHost, conc>>
    \/ \E r \in Registrations :
           /\ HandleFunc(r[1], r[2])
           /\ Len(routes') <= MaxRoutes
           /\ UNCHANGED <<urlHost, conc>>
    \/ \E m \in RequestMethods, p \in RequestPaths :
           /\ ServeHTTP(m, p)
           /\ UNCHANGED <<urlHost, conc>>

Spec == Init /\ [][Next]_vars

-----------------------------------------------------------------------------
(* SpecMatch: valid registrations of two methods, two paths and two        *)
(* handlers in every order, and the requests for them                      *)

\* a second non-nil handler
HandlerB == "B"

MatchSpecs == { m \o <<":">> \o u : m \in {GET, POST}, u \in {<<"/","x">>, <<"/","y">>} }

MatchHandlers == {HandlerA, HandlerB}

NextMatch ==
    \/ \E p \in MatchSpecs, h \in MatchHandlers :
           /\ Handle(p, h)
           /\ Len(routes') <= MaxMatchRoutes
           /\ UNCHANGED <<urlHost, conc>>
    \/ \E p \in MatchSpecs, h \in MatchHandlers :
           /\ HandleFunc(p, h)
           /\ Len(routes') <= MaxMatchRoutes
           /\ UNCHANGED <<urlHost, conc>>
    \/ \E m \in {GET, POST}, p \in {<<"/","x">>, <<"/","y">>} :
           /\ ServeHTTP(m, p)
           /\ UNCHANGED <<urlHost, conc>>

SpecMatch == Init /\ [][NextMatch]_vars

-----------------------------------------------------------------------------
(* SpecMain: main.go, setupRouter and then the server's requests           *)

\* the three handler functions of setupRouter, named by what they write
HandlerRoot == "Root - Hello World!"

HandlerOne == "Path One - Hello World!"

HandlerTwo == "Path Two - Hello World!"

PathOne == <<"p","a","t","h","-","o","n","e">>

PathTwo == <<"p","a","t","h","-","t","w","o">>

Unknown == <<"u","n","k","n","o","w","n">>

\* setupRouter(): its three HandleFunc calls in order; a panic ends it
setupRouter ==
    LET r1 == handleFunc(routes, GET \o <<":","/">>, HandlerRoot)
        r2 == IF r1.panic # NoPanic THEN r1
              ELSE handleFunc(r1.routes, GET \o <<":","/">> \o PathOne, HandlerOne)
        r3 == IF r2.panic # NoPanic THEN r2
              ELSE handleFunc(r2.routes,
                              GET \o <<":","/">> \o PathOne \o <<"/">> \o PathTwo,
                              HandlerTwo)
    IN  /\ last.op = "New"
        /\ routes' = r3.routes
        /\ last' = Call("setupRouter", <<>>, <<>>, Nil, r3.panic, Nil)

\* request paths: up to MaxReqParts pieces, each a '/' or a segment
ReqPieces == { <<"/">>, PathOne, PathTwo, Unknown }

RECURSIVE PiecePaths(_)
PiecePaths(n) ==
    IF n = 0 THEN { <<>> }
    ELSE LET shorter == PiecePaths(n - 1)
         IN  shorter \cup { s \o p : s \in shorter, p \in ReqPieces }

MainRequestPaths == PiecePaths(MaxReqParts)

\* startServer(): the server hands each request to the router, once
\* setupRouter has returned
serve(reqMethod, reqPath) ==
    /\ last.op # "New"
    /\ ~(last.op = "setupRouter" /\ last.panic # NoPanic)
    /\ ServeHTTP(reqMethod, reqPath)

NextMain ==
    \/ /\ setupRouter
       /\ UNCHANGED <<urlHost, conc>>
    \/ \E m \in {GET, POST}, p \in MainRequestPaths :
           /\ serve(m, p)
           /\ UNCHANGED <<urlHost, conc>>

SpecMain == Init /\ [][NextMain]_vars

-----------------------------------------------------------------------------
(* SpecHost: registrations with and without an authority in the URL part,  *)
(* and requests whose URL holds a Host of its own                          *)

HostName == <<"h">>

\* GET:/x, GET:///h/x, GET:///h and GET://h/x
HostSpecs ==
    { GET \o <<":">> \o u :
        u \in { <<"/","x">>, <<"/","/","/","h","/","x">>, <<"/","/","/","h">>,
                <<"/","/","h","/","x">> } }

\* Request.URL.Host: empty for an origin-form request line, the authority
\* for an absolute-form one
UrlHosts == { <<>>, HostName }

\* Request.URL.Path
HostRequestPaths ==
    { <<"/","x">>, <<"/","/","/","h","/","x">>, <<"/","/","/","h">>,
      <<"/","/","h","/","x">>, <<"/","h","/","x">> }

\* ServeHTTP comparing the routes with Request.URL.Host in place of the host
\* tokenize returns: a mutant
ServeRequestByUrlHost(reqMethod, reqHost, reqPath) ==
    LET t       == tokenize(reqMethod \o <<":">> \o reqPath)
        handler == scan(routes, 1, t.method, reqHost, t.path)
        served  == IF t.panic # NoPanic THEN Nil
                   ELSE IF handler = Nil THEN NotFoundHandler ELSE handler
    IN  /\ routes' = routes
        /\ last' = Call("ServeHTTP", reqMethod, reqPath, Nil, t.panic, served)
        /\ urlHost' = reqHost

\* ServeHTTP comparing the routes with Request.Method, Request.URL.Host and
\* Request.URL.Path as they are, tokenize not called: a mutant
ServeRequestRawTriple(reqMethod, reqHost, reqPath) ==
    LET handler == scan(routes, 1, reqMethod, reqHost, reqPath)
        served  == IF handler = Nil THEN NotFoundHandler ELSE handler
    IN  /\ routes' = routes
        /\ last' = Call("ServeHTTP", reqMethod, reqPath, Nil, NoPanic, served)
        /\ urlHost' = reqHost

\* a call of Router.ServeHTTP(rw, rr) with rr.URL.Host = reqHost: match reads
\* rr.Method and rr.URL.Path and nothing else of the request
ServeRequest(reqMethod, reqHost, reqPath) ==
    /\ ServeHTTP(reqMethod, reqPath)
    /\ urlHost' = reqHost

NextHost ==
    \/ \E p \in HostSpecs, h \in MatchHandlers :
           /\ Handle(p, h)
           /\ Len(routes') <= MaxHostRoutes
           /\ UNCHANGED <<urlHost, conc>>
    \/ \E uh \in UrlHosts, p \in HostRequestPaths :
           /\ ServeRequest(GET, uh, p)
           /\ UNCHANGED conc

SpecHost == Init /\ [][NextHost]_vars

-----------------------------------------------------------------------------
(* SpecConc: Handle, HandleFunc and ServeHTTP step by step on goroutines.  *)
(* Handle holds Router.mu from its first statement to its return; match    *)
(* reads Router.routes without it.                                         *)

ConcSpecs == { GET \o <<":","/","x">>, PATCH \o <<":","/","x">> }

ConcHandlers == {HandlerA, HandlerB, Nil}

\* the requests: method and URL path
ConcRequests == { <<GET, <<"/","x">>>>, <<PATCH, <<"/","x">>>> }

\* an interface value of which the type word is stored and the data word not
TornHandler == "torn"

\* the panic of a call through such a value
RuntimeError == "runtime error: invalid memory address or nil pointer dereference"

\* r.Handle(path, handler) is called: the goroutine is at r.mu.Lock().  What
\* tokenize is to make of the path, a function of the path alone, is kept
\* with it from here on.
CallHandle(r, path, handler) ==
    /\ reg[r].pc = "idle"
    /\ reg[r].ok < MaxAppends
    /\ reg' = [reg EXCEPT ![r] =
                 [pc |-> "lock", path |-> path, handler |-> handler,
                  tok |-> tokenize(path),
                  base |-> <<>>, panic |-> NoPanic, ok |-> @.ok]]
    /\ UNCHANGED <<routes, last, urlHost, mu, srv>>

\* r.HandleFunc(path, handler) is called: it panics on a nil handler, and
\* calls Handle otherwise
CallHandleFunc(r, path, handler) ==
    /\ reg[r].pc = "idle"
    /\ reg[r].ok < MaxAppends
    /\ reg' = [reg EXCEPT ![r] =
                 IF handler = Nil THEN IdleRegistrar(NilHandlerString, @.ok)
                 ELSE [pc |-> "lock", path |-> path, handler |-> handler,
                       tok |-> tokenize(path),
                       base |-> <<>>, panic |-> NoPanic, ok |-> @.ok]]
    /\ UNCHANGED <<routes, last, urlHost, mu, srv>>

\* r.mu.Lock() that does not wait for the mutex to be free: a mutant
LockNoWait(r) ==
    /\ reg[r].pc = "lock"
    /\ mu' = r
    /\ reg' = [reg EXCEPT ![r].pc = "locked"]
    /\ UNCHANGED <<routes, last, urlHost, srv>>

\* r.mu.Lock() returns
Lock(r) ==
    /\ reg[r].pc = "lock"
    /\ mu = Free
    /\ mu' = r
    /\ reg' = [reg EXCEPT ![r].pc = "locked"]
    /\ UNCHANGED <<routes, last, urlHost, srv>>

\* the panic Handle raises with the mutex held, NoPanic when it raises none
handlePanic(r) ==
    IF reg[r].handler = Nil THEN ErrNilHandler ELSE reg[r].tok.panic

\* the panic of Handle with the Unlock not deferred: a mutant
PanicNoUnlock(r) ==
    /\ reg[r].pc = "locked"
    /\ handlePanic(r) # NoPanic
    /\ reg' = [reg EXCEPT ![r] =
                 IdleRegistrar(handlePanic(r), @.ok)]
    /\ UNCHANGED <<routes, last, urlHost, mu, srv>>

\* Handle panics on a nil handler or in tokenize, and the deferred Unlock
\* runs as the panic leaves Handle
Panic(r) ==
    /\ reg[r].pc = "locked"
    /\ handlePanic(r) # NoPanic
    /\ mu' = Free
    /\ reg' = [reg EXCEPT ![r] =
                 IdleRegistrar(handlePanic(r), @.ok)]
    /\ UNCHANGED <<routes, last, urlHost, srv>>

\* the append begins: the slice header is read, and the new length is
\* stored ahead of the new element
BeginAppend(r) ==
    /\ reg[r].pc = "locked"
    /\ handlePanic(r) = NoPanic
    /\ reg' = [reg EXCEPT ![r].pc = "appending", ![r].base = routes]
    /\ UNCHANGED <<routes, last, urlHost, mu, srv>>

\* the Route a goroutine inside Handle appends
NewRoute(r) ==
    Route(reg[r].tok.method, reg[r].tok.host, reg[r].tok.path, reg[r].handler)

\* the append ends: the element is stored after the routes read when it began
EndAppend(r) ==
    /\ reg[r].pc = "appending"
    /\ routes' = Append(reg[r].base, NewRoute(r))
    /\ reg' = [reg EXCEPT ![r].pc = "unlock"]
    /\ UNCHANGED <<last, urlHost, mu, srv>>

\* Handle returns and the deferred Unlock runs
Unlock(r) ==
    /\ reg[r].pc = "unlock"
    /\ mu' = Free
    /\ reg' = [reg EXCEPT ![r] = IdleRegistrar(NoPanic, @.ok + 1)]
    /\ UNCHANGED <<routes, last, urlHost, srv>>

\* s.ServeHTTP(rw, rr) is called: match tokenizes the method and the path,
\* and the panic of tokenize ends the call
Receive(s, reqMethod, reqPath) ==
    LET t == tokenize(reqMethod \o <<":">> \o reqPath)
        m == match(routes, reqMethod, reqPath)
    IN  /\ srv[s].pc = "idle"
        /\ srv' = [srv EXCEPT ![s] =
                     IF t.panic # NoPanic
                     THEN IdleServer(reqMethod, reqPath, <<>>, t.panic, m, m)
                     ELSE [pc |-> "scan", method |-> reqMethod, path |-> reqPath,
                           found |-> Nil, invoked |-> <<>>, panic |-> NoPanic,
                           before |-> NoMatch, after |-> NoMatch]]
        /\ UNCHANGED <<routes, last, urlHost, mu, reg>>

\* the goroutines between the two stores of an append
InFlight == { r \in Registrars : reg[r].pc = "appending" }

\* what a read that races with the stores of the element e may find in its
\* place: nothing of it, all but its handler, half of its handler, all of it
Partial(e) ==
    { Route(<<>>, <<>>, <<>>, Nil), [e EXCEPT !.handler = Nil],
      [e EXCEPT !.handler = TornHandler], e }

\* what the range over r.routes may find: the routes, or between the two
\* stores of an append the routes and what is stored of the new element
Seen == {routes} \cup { Append(routes, e) : e \in UNION { Partial(NewRoute(r)) : r \in InFlight } }

\* the routes once the append in flight has ended
AfterAppend ==
    IF InFlight = {} THEN routes
    ELSE Append(routes, NewRoute(CHOOSE r \in InFlight : TRUE))

\* the loop of match that takes the mutex and keeps it: a mutant
ScanLocked(s) ==
    /\ srv[s].pc = "scan"
    /\ mu = Free
    /\ mu' = s
    /\ LET t == tokenize(srv[s].method \o <<":">> \o srv[s].path)
           h == scan(routes, 1, t.method, t.host, t.path)
       IN  srv' = [srv EXCEPT
                     ![s].pc = "invoke",
                     ![s].found = IF h = Nil THEN NotFoundHandler ELSE h,
                     ![s].before = match(routes, srv[s].method, srv[s].path),
                     ![s].after = match(AfterAppend, srv[s].method, srv[s].path)]
    /\ UNCHANGED <<routes, last, urlHost, reg>>

\* the loop of match over what it finds of r.routes, the mutex not taken, and
\* the not-found handler in place of a nil one
Scan(s) ==
    /\ srv[s].pc = "scan"
    /\ \E v \in Seen :
           LET t == tokenize(srv[s].method \o <<":">> \o srv[s].path)
               h == scan(v, 1, t.method, t.host, t.path)
           IN  srv' = [srv EXCEPT
                         ![s].pc = "invoke",
                         ![s].found = IF h = Nil THEN NotFoundHandler ELSE h,
                         ![s].before = match(routes, srv[s].method, srv[s].path),
                         ![s].after = match(AfterAppend, srv[s].method, srv[s].path)]
    /\ UNCHANGED <<routes, last, urlHost, mu, reg>>

\* ServeHTTP that goes on to the not-found handler after a handler found: a
\* mutant
InvokeAndNotFound(s) ==
    /\ srv[s].pc = "invoke"
    /\ srv' = [srv EXCEPT ![s] =
                 IF @.found = TornHandler
                 THEN IdleServer(@.method, @.path, @.invoked, RuntimeError,
                                 @.before, @.after)
                 ELSE IF @.found = NotFoundHandler
                 THEN IdleServer(@.method, @.path, Append(@.invoked, @.found),
                                 NoPanic, @.before, @.after)
                 ELSE IdleServer(@.method, @.path,
                                 @.invoked \o <<@.found, NotFoundHandler>>,
                                 NoPanic, @.before, @.after)]
    /\ UNCHANGED <<routes, last, urlHost, mu, reg>>

\* handler.ServeHTTP(rw, rr): the handler match returned is invoked, and
\* ServeHTTP returns; the call through a half-stored handler panics
Invoke(s) ==
    /\ srv[s].pc = "invoke"
    /\ srv' = [srv EXCEPT ![s] =
                 IF @.found = TornHandler
                 THEN IdleServer(@.method, @.path, @.invoked, RuntimeError,
                                 @.before, @.after)
                 ELSE IdleServer(@.method, @.path, Append(@.invoked, @.found),
                                 NoPanic, @.before, @.after)]
    /\ UNCHANGED <<routes, last, urlHost, mu, reg>>

NextConc ==
    \/ \E r \in Registrars, p \in ConcSpecs, h \in ConcHandlers : CallHandle(r, p, h)
    \/ \E r \in Registrars, p \in ConcSpecs, h \in ConcHandlers : CallHandleFunc(r, p, h)
    \/ \E r \in Registrars : Lock(r)
    \/ \E r \in Registrars : Panic(r)
    \/ \E r \in Registrars : BeginAppend(r)
    \/ \E r \in Registrars : EndAppend(r)
    \/ \E r \in Registrars : Unlock(r)
    \/ \E s \in Servers, q \in ConcRequests : Receive(s, q[1], q[2])
    \/ \E s \in Servers : Scan(s)
    \/ \E s \in Servers : Invoke(s)

SpecConc == Init /\ [][NextConc]_vars

\* the scheduler runs every goroutine that can take a step, and sync.Mutex
\* hands the mutex to a goroutine that has waited for it
FairConc ==
    /\ SpecConc
    /\ \A r \in Registrars :
           /\ SF_vars(Lock(r))
           /\ WF_vars(Panic(r) \/ BeginAppend(r) \/ EndAppend(r) \/ Unlock(r))

-----------------------------------------------------------------------------
(* The properties checked *)

RegisterOps == {"Handle", "HandleFunc"}

PUT == <<"P","U","T">>

DELETE == <<"D","E","L","E","T","E">>

HEAD == <<"H","E","A","D">>

OPTIONS == <<"O","P","T","I","O","N","S">>

\* the allow-list of the specification, as a set
AllowList == {GET, POST, PUT, DELETE, HEAD, OPTIONS}

\* the number of places of s that hold the character c
Count(s, c) == Cardinality({i \in 1..Len(s) : s[i] = c})

\* s with every letter in upper case
UpperString(s) == [i \in 1..Len(s) |-> ToUpperChar(s[i])]

\* the indices of the routes that carry the triple (method, host, path)
Carrying(method, host, path) ==
    { i \in 1..Len(routes) :
        routes[i].method = method /\ routes[i].host = host /\ routes[i].path = path }

\* the least element of a non-empty set of indices
Least(S) == CHOOSE i \in S : \A j \in S : i <= j

\* the last call was a request for (method, path) that ended without a panic
Served(method, path) ==
    /\ last.op = "ServeHTTP"
    /\ last.method = method
    /\ last.path = path
    /\ last.panic = NoPanic

\* C1: first match wins.  A dispatch that returns invokes the handler of the
\* earliest-registered route whose (method, host, path) equals the triple
\* tokenized from the request, and the not-found handler when there is none;
\* in particular a request GET /x invokes the handler of the first route
\* registered for GET:/x, whatever was registered for GET:/x after it.
C1_FirstMatchWins ==
    /\ (last.op = "ServeHTTP" /\ last.panic = NoPanic) =>
           LET t    == tokenize(last.method \o <<":">> \o last.path)
               hits == Carrying(t.method, t.host, t.path)
           IN  IF hits = {} THEN last.served = NotFoundHandler
               ELSE last.served = routes[Least(hits)].handler
    /\ (Served(GET, <<"/","x">>) /\ Carrying(GET, <<>>, <<"x">>) # {}) =>
           last.served = routes[Least(Carrying(GET, <<>>, <<"x">>))].handler

\* C1 witness: GET:/x registered with A and then with B, GET /x served by A
C1_Witness ==
    /\ Len(routes) >= 2
    /\ routes[1] = Route(GET, <<>>, <<"x">>, HandlerA)
    /\ routes[2] = Route(GET, <<>>, <<"x">>, HandlerB)
    /\ Served(GET, <<"/","x">>)
    /\ last.served = HandlerA

\* C2: a dispatch never fails, and on an empty registry every request, of any
\* method and any path, is answered by the not-found handler.
C2_DispatchNeverFails ==
    last.op = "ServeHTTP" =>
        /\ last.panic = NoPanic
        /\ (routes = <<>> => last.served = NotFoundHandler)

\* C3: Handle and HandleFunc called without a handler fail with ErrNilHandler
\* and leave the route slice as it was.
C3_NilHandlerBeforeMutation ==
    [][ (last'.op \in RegisterOps /\ last'.handler = Nil) =>
            (last'.panic = ErrNilHandler /\ routes' = routes) ]_vars

\* C4: a registration with a handler fails with ErrBadPath when the path-spec
\* does not hold exactly one ':', and with ErrMethodNotAllowed when it holds
\* exactly one and the token before it is, in any letter case, none of GET,
\* POST, PUT, DELETE, HEAD, OPTIONS.
C4_BadPathAndMethod ==
    (last.op \in RegisterOps /\ last.handler # Nil) =>
        /\ Count(last.path, ":") # 1 => last.panic = ErrBadPath
        /\ (/\ Count(last.path, ":") = 1
            /\ UpperString(Before(last.path, ":")) \notin AllowList)
               => last.panic = ErrMethodNotAllowed

\* C4 witness: GET:/x:y registered with a handler failed with ErrBadPath
C4_Witness ==
    /\ last.op \in RegisterOps
    /\ last.handler = HandlerA
    /\ last.path = GET \o <<":","/","x",":","y">>
    /\ last.panic = ErrBadPath

\* C5: after setupRouter, GET / is served by the Root handler, GET /path-one
\* by the One handler, and GET /unknown by the not-found handler.
C5_Scenario ==
    /\ last.op = "setupRouter" => (last.panic = NoPanic /\ Len(routes) = 3)
    /\ Served(GET, <<"/">>) => last.served = HandlerRoot
    /\ Served(GET, <<"/">> \o PathOne) => last.served = HandlerOne
    /\ (last.op = "ServeHTTP" /\ last.method = GET /\ last.path = <<"/">> \o Unknown)
           => (last.panic = NoPanic /\ last.served = NotFoundHandler)
    /\ (last.op = "ServeHTTP" /\ last.method = GET
            /\ last.path \in { <<"/">>, <<"/">> \o PathOne })
           => last.panic = NoPanic

\* C5 witness: GET /path-one was served by the One handler
C5_Witness ==
    /\ Served(GET, <<"/">> \o PathOne)
    /\ last.served = HandlerOne
    /\ Len(routes) = 3

\* C6: with one route for GET:/x and one for POST:/x, POST /x is served by the
\* handler of the POST route and GET /x by the handler of the GET route,
\* wherever the two stand in the slice and whatever other routes stand
\* before, between and after them.
C6_MethodsIndependent ==
    /\ (Served(POST, <<"/","x">>) /\ Cardinality(Carrying(POST, <<>>, <<"x">>)) = 1) =>
           \A i \in Carrying(POST, <<>>, <<"x">>) : last.served = routes[i].handler
    /\ (Served(GET, <<"/","x">>) /\ Cardinality(Carrying(GET, <<>>, <<"x">>)) = 1) =>
           \A i \in Carrying(GET, <<>>, <<"x">>) : last.served = routes[i].handler

\* C6 witness: GET:/x with A ahead of POST:/x with B, another route in the
\* slice, and POST /x served by B
C6_Witness ==
    /\ Len(routes) = 3
    /\ \E i, j, k \in 1..3 :
           /\ i < j /\ k \notin {i, j}
           /\ routes[i] = Route(GET, <<>>, <<"x">>, HandlerA)
           /\ routes[j] = Route(POST, <<>>, <<"x">>, HandlerB)
           /\ routes[k].path = <<"y">>
    /\ Served(POST, <<"/","x">>)
    /\ last.served = HandlerB

\* C7: the method of every stored route is one of GET, POST, PUT, DELETE,
\* HEAD, OPTIONS, in upper case.
C7_MethodsUpperCase ==
    \A i \in 1..Len(routes) : routes[i].method \in AllowList

UrlPart(spec) == SubSeq(spec, IndexOf(spec, ":") + 1, Len(spec))

\* a URL part without a doubled '/' at either end and without '?' and '#'
PlainEnds(u) ==
    /\ ~HasPrefix(u, <<"/","/">>)
    /\ ~HasSuffix(u, <<"/","/">>)
    /\ \A i \in 1..Len(u) : u[i] \notin {"?", "#"}

C9_AppendOnly ==
    [][ /\ \/ routes' = routes
           \/ /\ Len(routes') = Len(routes) + 1
              /\ SubSeq(routes', 1, Len(routes)) = routes
        /\ (last'.op \in RegisterOps /\ last'.panic = NoPanic) =>
               /\ Len(routes') = Len(routes) + 1
               /\ routes' = Append(routes, routes'[Len(routes')]) ]_vars

\* C9 witness: the same triple registered twice stands twice in the slice
C9_Witness ==
    /\ Len(routes) = 2
    /\ routes[1] = routes[2]
    /\ last.op \in RegisterOps
    /\ last.panic = NoPanic

\* C10: the registry starts empty; from empty, a step populates it exactly
\* when it is a registration that succeeds; once populated it stays so.
C10_Lifecycle ==
    /\ routes = <<>>
    /\ [][ /\ routes = <<>> =>
                  ((routes' # <<>>) <=> (last'.op \in RegisterOps /\ last'.panic = NoPanic))
           /\ routes # <<>> => routes' # <<>> ]_vars

\* C10 witness: a populated registry after a registration that failed
C10_Witness ==
    /\ routes # <<>>
    /\ last.op \in RegisterOps
    /\ last.panic = ErrBadPath

\* the panics tokenize raises
TokenizeErrors == {ErrBadPath, ErrMethodNotAllowed, UrlParseError}

\* the last call was a registration with a handler that tokenize rejected
FailedRegister(call) ==
    /\ call.op \in RegisterOps
    /\ call.handler # Nil
    /\ call.panic \in TokenizeErrors

\* C13: a registration with a handler whose path-spec tokenize rejects, with
\* ErrBadPath, ErrMethodNotAllowed or the error of url.Parse, leaves the route
\* slice as it was, and the request that follows it ends as the routes from
\* before the failed call have it end: in the panic of tokenize, the handler
\* of the first route carrying its triple, or the not-found handler.
C13_FailedRegisterAppendsNothing ==
    [][ /\ FailedRegister(last') => routes' = routes
        /\ (FailedRegister(last) /\ last'.op = "ServeHTTP") =>
               LET t    == tokenize(last'.method \o <<":">> \o last'.path)
                   hits == Carrying(t.method, t.host, t.path)
               IN  /\ last'.panic = t.panic
                   /\ t.panic = NoPanic =>
                          last'.served = IF hits = {} THEN NotFoundHandler
                                         ELSE routes[Least(hits)].handler ]_vars

\* C13 witness: a registration with a handler failed in url.Parse on a
\* populated registry
C13_Witness ==
    /\ routes # <<>>
    /\ last.op \in RegisterOps
    /\ last.handler = HandlerA
    /\ last.panic = UrlParseError

\* q is p, or p with one '/' added or removed at its start or at its end
OneSlashApart(p, q) ==
    \/ q = p
    \/ q = <<"/">> \o p
    \/ p = <<"/">> \o q
    \/ q = p \o <<"/">>
    \/ p = q \o <<"/">>

\* the last call was a request of method M on a registry that is exactly what
\* Handle(spec, h) leaves of an empty one, for a path-spec M:P
RegisteredAlone(spec) ==
    /\ last.op = "ServeHTTP"
    /\ Len(routes) = 1
    /\ handle(<<>>, spec, routes[1].handler).routes = routes
    /\ last.method = Before(spec, ":")

\* C20 as claimed: when Handle("M:P", h) succeeds on an empty registry, a
\* request of method M is served by h when its path is P, and when its path
\* is P with one '/' added or removed at the start or at the end.
C20_SymmetricNormalization ==
    \A spec \in PathSpecs :
        (RegisteredAlone(spec) /\ OneSlashApart(UrlPart(spec), last.path)) =>
            (last.panic = NoPanic /\ last.served = routes[1].handler)

\* a path with at most one '/' at its start and at most one at its end
SingleSlashEnds(u) ==
    /\ ~HasPrefix(u, <<"/","/">>)
    /\ ~HasSuffix(u, <<"/","/">>)

\* C20 as amended: when Handle("M:P", h) succeeds on an empty registry, a
\* request of method M is served by h when its path is P, and when its path
\* is P with one '/' added or removed at the start or at the end and neither
\* P nor the request path has a doubled '/' at its start or at its end.
C20_SingleSlashNormalization ==
    \A spec \in PathSpecs :
        (/\ RegisteredAlone(spec)
         /\ \/ last.path = UrlPart(spec)
            \/ /\ OneSlashApart(UrlPart(spec), last.path)
               /\ SingleSlashEnds(UrlPart(spec))
               /\ SingleSlashEnds(last.path)) =>
            (last.panic = NoPanic /\ last.served = routes[1].handler)

\* C20 witness: GET:/x alone in the registry, GET /x/ served by its handler
C20_Witness ==
    /\ RegisteredAlone(GET \o <<":","/","x">>)
    /\ last.path = <<"/","x","/">>
    /\ last.panic = NoPanic
    /\ last.served = HandlerA

\* the triple tokenize makes of the last request
LastTriple == tokenize(last.method \o <<":">> \o last.path)

\* the last call was a request that ended without a panic
Dispatched == last.op = "ServeHTTP" /\ last.panic = NoPanic

Selected(i) ==
    /\ Dispatched
    /\ Carrying(LastTriple.method, LastTriple.host, LastTriple.path) # {}
    /\ i = Least(Carrying(LastTriple.method, LastTriple.host, LastTriple.path))
    /\ last.served = routes[i].handler

InHandle(r) == reg[r].pc \in {"locked", "appending", "unlock"}

\* the number of calls of Handle that have returned without a panic
RECURSIVE Returned(_)
Returned(R) ==
    IF R = {} THEN 0
    ELSE LET r == CHOOSE x \in R : TRUE
         IN  reg[r].ok + Returned(R \ {r})

\* the routes Handle makes of the path-specs and handlers of SpecConc
IntactRoutes ==
    { handle(<<>>, p, h).routes[1] :
        p \in {q \in ConcSpecs : tokenize(q).panic = NoPanic},
        h \in ConcHandlers \ {Nil} }

\* C11: at most one goroutine is between Lock and Unlock of Router.mu, and it
\* is the one that holds the mutex; the route slice holds one route for each
\* call of Handle that has returned without a panic or has ended its append,
\* each of them a whole route of one of the calls.
C11_RegistrationsSerialized ==
    /\ Cardinality({r \in Registrars : InHandle(r)}) <= 1
    /\ \A r \in Registrars : InHandle(r) => mu = r
    /\ Len(routes) =
           Returned(Registrars) + Cardinality({r \in Registrars : reg[r].pc = "unlock"})
    /\ \A i \in 1..Len(routes) : routes[i] \in IntactRoutes

\* C11 witness: one goroutine has appended its route and not yet unlocked,
\* while the other waits in Lock with a registration that will succeed
C11_Witness ==
    \E r, w \in Registrars :
        /\ r # w
        /\ reg[r].pc = "unlock"
        /\ reg[w].pc = "lock"
        /\ reg[w].handler # Nil
        /\ reg[w].tok.panic = NoPanic
        /\ routes = <<NewRoute(r)>>

\* C14: a step of ServeHTTP, whether it tokenizes the request and panics,
\* scans the routes, or invokes the handler found or the not-found handler,
\* leaves the route slice and the mutex as they were.
C14_DispatchReadOnly ==
    [][ (srv' # srv) => (routes' = routes /\ mu' = mu) ]_vars

\* C14 witness: a request has ended in a registered handler while a
\* registering goroutine holds the mutex
C14_Witness ==
    \E s \in Servers :
        /\ srv[s].pc = "idle"
        /\ srv[s].panic = NoPanic
        /\ srv[s].invoked = <<HandlerA>>
        /\ mu \in Registrars
        /\ routes # <<>>

\* how the last request of a server goroutine ended: its panic, and the
\* handler it invoked
Outcome(s) ==
    [panic   |-> srv[s].panic,
     handler |-> IF srv[s].invoked = <<>> THEN Nil ELSE srv[s].invoked[1]]

\* C15: a request whose scan runs while a Handle appends ends as match ends
\* on the routes before that append or on the routes after it.
C15_DispatchNeverCorrupted ==
    \A s \in Servers :
        (srv[s].pc = "idle" /\ srv[s].method # <<>>) =>
            Outcome(s) \in {srv[s].before, srv[s].after}

\* C18: a call of ServeHTTP that returns has invoked one handler, once, and
\* before it returned: the handler of the first route carrying the triple of
\* the request, on the routes as they were before or after an append in
\* flight, or the not-found handler when no route carries it; a second route
\* with the same triple adds no second invocation.
C18_OneHandlerOnce ==
    \A s \in Servers :
        /\ srv[s].pc # "idle" => srv[s].invoked = <<>>
        /\ (srv[s].pc = "idle" /\ srv[s].method # <<>> /\ srv[s].panic = NoPanic) =>
               /\ Len(srv[s].invoked) = 1
               /\ srv[s].invoked[1] \in {srv[s].before.handler, srv[s].after.handler}
               /\ srv[s].before = srv[s].after =>
                      srv[s].invoked[1] = srv[s].before.handler

\* C18 witness: with GET:/x registered for A and then for B, a request
\* GET /x has returned with A invoked once and B not at all
C18_Witness ==
    \E s \in Servers :
        /\ routes = << Route(GET, <<>>, <<"x">>, HandlerA),
                       Route(GET, <<>>, <<"x">>, HandlerB) >>
        /\ srv[s].pc = "idle"
        /\ srv[s].method = GET
        /\ srv[s].before = srv[s].after
        /\ srv[s].before = match(routes, GET, <<"/","x">>)
        /\ srv[s].invoked = <<HandlerA>>

\* C19: the mutex is held only by a goroutine inside Handle, a call that
\* panics with it held releasing it on the way out; and with the goroutines
\* scheduled fairly every call of Handle, waiting in Lock or past it,
\* returns or panics in the end.
C19_GuardReleased ==
    /\ [](mu # Free => (mu \in Registrars /\ InHandle(mu)))
    /\ \A r \in Registrars : (reg[r].pc # "idle") ~> (reg[r].pc = "idle")

\* C19 witness: one goroutine has left Handle by a panic raised with the
\* mutex held, and the other has taken the mutex and appended its route
C19_Witness ==
    \E r, w \in Registrars :
        /\ reg[r].pc = "idle"
        /\ reg[r].panic \in {ErrNilHandler, ErrMethodNotAllowed}
        /\ reg[w].pc = "unlock"
        /\ mu = w

=============================================================================
